---- MODULE Spec2Model ----
(***************************************************************************)
(* A model of cli_file_analyzer: file_analyzer_pro.py (file-set            *)
(* resolution, per-file analysis, rendering, output) and main.py (the      *)
(* single-mode analyzer).                                                  *)
(*                                                                         *)
(* A Python str is a sequence of one-character strings; a dict is the      *)
(* sequence of its items in insertion order.                               *)
(***************************************************************************)
EXTENDS Integers, Sequences, FiniteSets, TLC

\* ------------------------------------------------------------------ bounds

\* Longest file content the analysis is applied to in SpecUnit.
MaxLen == 3
\* Longest list of positional path/pattern arguments in Spec.
MaxPatterns == 2

\* -------------------------------------------------------- strings and lists

NL == "\n"
SP == " "
FF == "\f"

\* Characters a file content is drawn from: a letter, a blank, a newline, a
\* form feed (whitespace, and a line boundary other than the newline).
Alphabet == {"a", SP, NL, FF}

\* str.isspace() on the characters of the model.
IsSpace(c) == c \in {SP, NL, FF}

\* The line boundaries of str.splitlines() among the characters of the model.
IsLineBreak(c) == c \in {NL, FF}

RECURSIVE Concat(_)
\* The items of a list of strings, one after the other.
Concat(ss) == IF ss = <<>> THEN <<>> ELSE Head(ss) \o Concat(Tail(ss))

RECURSIVE Join(_, _)
\* sep.join(ss)
Join(ss, sep) ==
    IF ss = <<>> THEN <<>>
    ELSE IF Len(ss) = 1 THEN ss[1]
    ELSE ss[1] \o sep \o Join(Tail(ss), sep)

\* s.endswith(suf)
EndsWith(s, suf) ==
    /\ Len(suf) <= Len(s)
    /\ SubSeq(s, Len(s) - Len(suf) + 1, Len(s)) = suf

RECURSIVE Count(_, _)
\* s.count(c) for a one-character c
Count(s, c) ==
    IF s = <<>> THEN 0
    ELSE (IF Head(s) = c THEN 1 ELSE 0) + Count(Tail(s), c)

RECURSIVE SplitAcc(_, _, _)
\* str.split() with no argument: cur is the token being read, acc the tokens
\* already closed; runs of whitespace separate tokens and yield no empty one.
SplitAcc(s, cur, acc) ==
    IF s = <<>> THEN (IF cur = <<>> THEN acc ELSE Append(acc, cur))
    ELSE IF IsSpace(Head(s))
         THEN SplitAcc(Tail(s), <<>>, IF cur = <<>> THEN acc ELSE Append(acc, cur))
         ELSE SplitAcc(Tail(s), Append(cur, Head(s)), acc)

Split(s) == SplitAcc(s, <<>>, <<>>)

RECURSIVE SplitLinesAcc(_, _, _)
\* str.splitlines(): every line break closes a line (an empty one included);
\* what follows the last break is a line only when it is not empty.
SplitLinesAcc(s, cur, acc) ==
    IF s = <<>> THEN (IF cur = <<>> THEN acc ELSE Append(acc, cur))
    ELSE IF IsLineBreak(Head(s))
         THEN SplitLinesAcc(Tail(s), <<>>, Append(acc, cur))
         ELSE SplitLinesAcc(Tail(s), Append(cur, Head(s)), acc)

SplitLines(s) == SplitLinesAcc(s, <<>>, <<>>)

\* line.strip(): the line without its leading and trailing whitespace.  Only
\* its truth value is used: it is empty iff every character is whitespace.
StripIsEmpty(line) == \A i \in 1..Len(line) : IsSpace(line[i])

RECURSIVE SumLen(_)
\* sum(len(x) for x in xs)
SumLen(xs) == IF xs = <<>> THEN 0 ELSE Len(Head(xs)) + SumLen(Tail(xs))

RECURSIVE CountBlank(_)
\* sum(1 for line in lines if not line.strip())
CountBlank(lines) ==
    IF lines = <<>> THEN 0
    ELSE (IF StripIsEmpty(Head(lines)) THEN 1 ELSE 0) + CountBlank(Tail(lines))

Max(a, b) == IF a >= b THEN a ELSE b

Digit(n) == CASE n = 0 -> "0" [] n = 1 -> "1" [] n = 2 -> "2" [] n = 3 -> "3"
              [] n = 4 -> "4" [] n = 5 -> "5" [] n = 6 -> "6" [] n = 7 -> "7"
              [] n = 8 -> "8" [] n = 9 -> "9"

RECURSIVE Str(_)
\* str(n) of a non-negative int
Str(n) == IF n < 10 THEN <<Digit(n)>> ELSE Str(n \div 10) \o <<Digit(n % 10)>>

\* format(x, ".2f") of the number n/d (n >= 0, d >= 1): the nearest multiple of
\* 1/100, an exact tie going to the even one, with exactly two decimals.  A tie
\* needs 8 | d, so none arises for the d < 8 of the model, where the double
\* nearest n/d rounds as n/d does.
Fmt2(n, d) ==
    LET q == (100 * n) \div d
        r == (100 * n) % d
        h == IF 2 * r > d THEN q + 1
             ELSE IF 2 * r < d THEN q
             ELSE IF q % 2 = 0 THEN q ELSE q + 1
    IN  Str(h \div 100) \o <<".", Digit((h % 100) \div 10), Digit(h % 10)>>

ToUpper(c) == CASE c = "l" -> "L" [] c = "w" -> "W" [] c = "c" -> "C"
                [] c = "s" -> "S" [] OTHER -> c

ToLower(c) == CASE c = "L" -> "l" [] c = "W" -> "w" [] c = "C" -> "c"
                [] c = "S" -> "s" [] OTHER -> c

\* str.capitalize(): the first character upper-cased, the rest lower-cased.
Capitalize(s) ==
    IF s = <<>> THEN <<>>
    ELSE <<ToUpper(s[1])>> \o [i \in 1..(Len(s) - 1) |-> ToLower(s[i + 1])]

\* ------------------------------------------------------------- dictionaries

\* The values of a FileMetrics mapping: an int, a float n/d, or a nested dict.
IntVal(n) == [t |-> "int", n |-> n, d |-> 1, items |-> <<>>]
FloatVal(n, d) == [t |-> "float", n |-> n, d |-> d, items |-> <<>>]
DictVal(items) == [t |-> "dict", n |-> 0, d |-> 1, items |-> items]

Item(k, v) == [k |-> k, v |-> v]

Keys(dict) == {dict[i].k : i \in 1..Len(dict)}

HasKey(dict, k) == \E i \in 1..Len(dict) : dict[i].k = k

\* dict[k], for a key the dict holds
Get(dict, k) == dict[CHOOSE i \in 1..Len(dict) : dict[i].k = k].v

\* dict[k] = v: a key already present keeps its place, a new one goes last.
Put(dict, k, v) ==
    IF HasKey(dict, k)
    THEN [i \in 1..Len(dict) |-> IF dict[i].k = k THEN Item(k, v) ELSE dict[i]]
    ELSE Append(dict, Item(k, v))

RECURSIVE Update(_, _)
\* dict.update(other)
Update(dict, other) ==
    IF other = <<>> THEN dict
    ELSE Update(Put(dict, Head(other).k, Head(other).v), Tail(other))

\* The metric names, as the strings the code uses for keys and modes.
K_lines == <<"l", "i", "n", "e", "s">>
K_words == <<"w", "o", "r", "d", "s">>
K_chars == <<"c", "h", "a", "r", "s">>
K_stats == <<"s", "t", "a", "t", "s">>
K_all == <<"a", "l", "l">>
K_filename == <<"f", "i", "l", "e", "n", "a", "m", "e">>
K_avg_line_length ==
    <<"a", "v", "g", "_", "l", "i", "n", "e", "_", "l", "e", "n", "g", "t", "h">>
K_avg_words_length ==
    <<"a", "v", "g", "_", "w", "o", "r", "d", "s", "_", "l", "e", "n", "g", "t", "h">>
K_empty_lines == <<"e", "m", "p", "t", "y", "_", "l", "i", "n", "e", "s">>

\* --mode choices
ModeChoices == {K_lines, K_words, K_chars, K_all, K_stats}

\* ------------------------------------------------- analyze_file, the metrics

\* A variant of LinesMetric: the count of newlines alone.
LinesMetric_NoPlusOne(content) == Count(content, NL)

\* results['lines']
LinesMetric(content) == Count(content, NL) + 1

\* results['words']
WordsMetric(content) == Len(Split(content))

\* results['chars']
CharsMetric(content) == Len(content)

\* results['stats']
StatsMetric(content) ==
    LET lines == SplitLines(content)
        words == Split(content)
    IN  DictVal(<<
          Item(K_avg_line_length, FloatVal(SumLen(lines), Max(Len(lines), 1))),
          Item(K_avg_words_length, FloatVal(SumLen(words), Max(Len(words), 1))),
          Item(K_empty_lines, IntVal(CountBlank(lines)))
        >>)

\* Whether the lines/words/chars block of that name runs.
Requested(mode, modes) == mode \in modes \/ K_all \in modes

\* A variant of StatsRequested: 'all' requests the stats block too.
StatsRequested_WithAll(modes) == K_stats \in modes \/ K_all \in modes

\* Whether the stats block runs.
StatsRequested(modes) == K_stats \in modes

\* The results dict analyze_file builds from the content it read.
Metrics(content, modes) ==
    LET r0 == <<>>
        r1 == IF Requested(K_lines, modes)
              THEN Put(r0, K_lines, IntVal(LinesMetric(content))) ELSE r0
        r2 == IF Requested(K_words, modes)
              THEN Put(r1, K_words, IntVal(WordsMetric(content))) ELSE r1
        r3 == IF Requested(K_chars, modes)
              THEN Put(r2, K_chars, IntVal(CharsMetric(content))) ELSE r2
        r4 == IF StatsRequested(modes)
              THEN Put(r3, K_stats, StatsMetric(content)) ELSE r3
    IN  r4

\* main.py, analyze_file: the result of a mode, for the content read.
SimpleResult(content, mode) ==
    CASE mode = K_lines -> Count(content, NL) + 1
      [] mode = K_words -> Len(Split(content))
      [] mode = K_chars -> Len(content)

\* ----------------------------------------------------------- formatted_output

\* str(data.get(item, ''))
CsvCell(data, item) == IF HasKey(data, item) THEN Str(Get(data, item).n) ELSE <<>>

CsvHeader == <<K_filename, K_lines, K_words, K_chars>>

\* One row of the csv branch.
CsvRow(filename, data) ==
    Join(<<filename>> \o [i \in 1..3 |-> CsvCell(data, CsvHeader[i + 1])], <<",">>)

\* The csv branch.
FormatCsv(results) ==
    Join(<<Join(CsvHeader, <<",">>)>>
           \o [i \in 1..Len(results) |-> CsvRow(results[i].k, results[i].v)],
         <<NL>>)

\* The line that opens a nested dict in the text branch.
TextSubHeader(key) == <<SP>> \o Capitalize(key) \o <<":">>

\* A line of a nested dict in the text branch.
TextStatLine(stat_key, stat_value) ==
    <<SP, SP, SP, SP>> \o stat_key \o <<":", SP>> \o Fmt2(stat_value.n, stat_value.d)

\* The line of a scalar metric in the text branch.
TextScalarLine(key, value) ==
    <<SP, SP>> \o Capitalize(key) \o <<":", SP>> \o Str(value.n)

\* The lines of one metric in the text branch.
TextMetricLines(key, value) ==
    IF value.t = "dict"
    THEN <<TextSubHeader(key)>>
           \o [j \in 1..Len(value.items) |->
                 TextStatLine(value.items[j].k, value.items[j].v)]
    ELSE <<TextScalarLine(key, value)>>

\* The lines of one file in the text branch.
TextFileLines(filename, data) ==
    <<(<<"R", "e", "s", "u", "l", "t", "s", SP, "f", "o", "r", SP, "'">>
         \o filename \o <<"'", ":">>)>>
      \o Concat([i \in 1..Len(data) |-> TextMetricLines(data[i].k, data[i].v)])

\* The text branch.
FormatText(results) ==
    Join(Concat([i \in 1..Len(results) |->
                   TextFileLines(results[i].k, results[i].v)]),
         <<NL>>)

\* ------------------------------------------------------------ the file system

\* The tree the driver runs in (the example of the specification):
\*   d/a.md   d/b.txt   d/sub/c.md
\* A node is the tuple of the names that lead to it from the working directory.
N_d == <<"d">>
N_sub == <<"s", "u", "b">>
N_a_md == <<"a", ".", "m", "d">>
N_b_txt == <<"b", ".", "t", "x", "t">>
N_c_md == <<"c", ".", "m", "d">>

Dirs == {<<>>, <<N_d>>, <<N_d, N_sub>>}
Files == {<<N_d, N_a_md>>, <<N_d, N_b_txt>>, <<N_d, N_sub, N_c_md>>}
Nodes == Dirs \cup Files

\* What no path resolves to.
NoNode == <<N_d, N_d>>

\* What f.read() returns for a file that opens and decodes.
FileContent(node) ==
    CASE node = <<N_d, N_a_md>> -> <<"a", SP, "a", NL>>
      [] node = <<N_d, N_sub, N_c_md>> -> <<>>
      [] OTHER -> <<"a">>

\* The files whose open() or decoding raises.
Unreadable == {<<N_d, N_b_txt>>}

RECURSIVE SplitOnAcc(_, _, _, _)
SplitOnAcc(s, c, cur, acc) ==
    IF s = <<>> THEN Append(acc, cur)
    ELSE IF Head(s) = c
         THEN SplitOnAcc(Tail(s), c, <<>>, Append(acc, cur))
         ELSE SplitOnAcc(Tail(s), c, Append(cur, Head(s)), acc)

\* s.split(c) for a one-character c: the pieces between its occurrences.
SplitOn(s, c) == SplitOnAcc(s, c, <<>>, <<>>)

RECURSIVE ResolveFrom(_, _)
\* The node the names lead to from cur: "." and an empty name stay in the
\* directory, and only a directory is descended into.
ResolveFrom(cur, names) ==
    IF names = <<>> THEN cur
    ELSE IF cur \notin Dirs THEN NoNode
    ELSE IF Head(names) \in {<<>>, <<".">>} THEN ResolveFrom(cur, Tail(names))
    ELSE IF Append(cur, Head(names)) \in Nodes
         THEN ResolveFrom(Append(cur, Head(names)), Tail(names))
         ELSE NoNode

\* The node a relative path string names.
Resolve(path) ==
    IF path = <<>> THEN NoNode ELSE ResolveFrom(<<>>, SplitOn(path, "/"))

\* os.path.isdir
IsDir(path) == Resolve(path) \in Dirs

\* os.path.isfile
IsFile(path) == Resolve(path) \in Files

\* os.path.lexists
LExists(path) == Resolve(path) \in Nodes

\* os.listdir, empty for what is no directory
ListDir(node) ==
    IF node \in Dirs
    THEN {n \in {N_d, N_sub, N_a_md, N_b_txt, N_c_md} : Append(node, n) \in Nodes}
    ELSE {}

\* os.path.join(a, b) for a relative b (an empty b leaves "a/")
PathJoin(a, b) ==
    IF a = <<>> THEN b
    ELSE IF a[Len(a)] = "/" THEN a \o b
    ELSE a \o <<"/">> \o b

\* os.path.split: (what precedes the last slash, what follows it)
PathSplit(p) ==
    LET slashes == {i \in 1..Len(p) : p[i] = "/"}
        i == IF slashes = {} THEN 0
             ELSE CHOOSE k \in slashes : \A j \in slashes : j <= k
    IN  <<SubSeq(p, 1, i - 1), SubSeq(p, i + 1, Len(p))>>

\* glob.has_magic, for the wildcard of the model
HasMagic(s) == \E i \in 1..Len(s) : s[i] = "*"

\* glob._isrecursive
IsRecursive(pattern) == pattern = <<"*", "*">>

\* glob._ishidden
IsHidden(name) == name # <<>> /\ name[1] = "."

RECURSIVE FnMatch(_, _)
\* fnmatch: "*" matches any run of characters, any other character itself.
FnMatch(name, pat) ==
    IF pat = <<>> THEN name = <<>>
    ELSE IF Head(pat) = "*"
         THEN FnMatch(name, Tail(pat)) \/ (name # <<>> /\ FnMatch(Tail(name), pat))
         ELSE name # <<>> /\ Head(name) = Head(pat) /\ FnMatch(Tail(name), Tail(pat))

\* glob._listdir: the entries of a directory, the directories only on demand
GlobListDir(dirname, dironly) ==
    LET node == IF dirname = <<>> THEN <<>> ELSE Resolve(dirname)
    IN  {n \in ListDir(node) : ~dironly \/ Append(node, n) \in Dirs}

\* glob._glob1: the entries of a directory that match a pattern
Glob1(dirname, pattern, dironly) ==
    {n \in GlobListDir(dirname, dironly) :
       /\ IsHidden(pattern) \/ ~IsHidden(n)
       /\ FnMatch(n, pattern)}

\* glob._glob0: a literal last part
Glob0(dirname, basename, dironly) ==
    IF basename = <<>>
    THEN (IF IsDir(dirname) THEN {basename} ELSE {})
    ELSE (IF LExists(PathJoin(dirname, basename)) THEN {basename} ELSE {})

RECURSIVE RListDir(_, _)
\* glob._rlistdir: every entry below a directory, as a path relative to it
RListDir(dirname, dironly) ==
    LET names == {n \in GlobListDir(dirname, dironly) : ~IsHidden(n)}
    IN  names \cup
        UNION {{PathJoin(x, y) :
                  y \in RListDir(IF dirname = <<>> THEN x ELSE PathJoin(dirname, x),
                                 dironly)} : x \in names}

\* glob._glob2: "**" matches the directory itself and everything below it
Glob2(dirname, pattern, dironly) ==
    (IF dirname = <<>> \/ IsDir(dirname) THEN {<<>>} ELSE {})
      \cup RListDir(dirname, dironly)

\* The glob_in_dir that glob._iglob selects for the last part of the pattern.
GlobInDir(dirname, basename, recursive, dironly) ==
    IF HasMagic(basename)
    THEN (IF recursive /\ IsRecursive(basename)
          THEN Glob2(dirname, basename, dironly)
          ELSE Glob1(dirname, basename, dironly))
    ELSE Glob0(dirname, basename, dironly)

RECURSIVE IGlob(_, _, _)
\* glob._iglob
IGlob(pathname, recursive, dironly) ==
    LET dirname == PathSplit(pathname)[1]
        basename == PathSplit(pathname)[2]
    IN  IF ~HasMagic(pathname)
        THEN (IF basename # <<>>
              THEN (IF LExists(pathname) THEN {pathname} ELSE {})
              ELSE (IF IsDir(dirname) THEN {pathname} ELSE {}))
        ELSE IF dirname = <<>>
        THEN GlobInDir(<<>>, basename, recursive, dironly)
        ELSE LET dirs == IF dirname # pathname /\ HasMagic(dirname)
                         THEN IGlob(dirname, recursive, TRUE)
                         ELSE {dirname}
             IN  UNION {{PathJoin(d, name) :
                           name \in GlobInDir(d, basename, recursive, dironly)} :
                        d \in dirs}

\* glob.glob(pathname, recursive=recursive): the empty match of a leading "**"
\* is dropped.
Glob(pathname, recursive) == IGlob(pathname, recursive, FALSE) \ {<<>>}

RECURSIVE OsWalk(_)
\* os.walk(top): the (root, file) pairs, root being top or a directory joined
\* below it, file a name of its non-directory entries.
OsWalk(top) ==
    LET node == Resolve(top)
        files == {n \in ListDir(node) : Append(node, n) \in Files}
        subs == {n \in ListDir(node) : Append(node, n) \in Dirs}
    IN  {<<top, f>> : f \in files} \cup UNION {OsWalk(PathJoin(top, x)) : x \in subs}

RECURSIVE SetToSeq(_)
\* The members of a set as a list, in some order.
SetToSeq(S) ==
    IF S = {} THEN <<>>
    ELSE LET x == CHOOSE x \in S : TRUE IN <<x>> \o SetToSeq(S \ {x})

\* ---------------------------------------------------- formatted_output, json

RECURSIVE Spaces(_)
Spaces(n) == IF n = 0 THEN <<>> ELSE <<SP>> \o Spaces(n - 1)

\* json.dumps of a str without characters to escape
JsonStr(s) == <<"\"">> \o s \o <<"\"">>

RECURSIVE JsonValue(_, _)
\* json.dumps(value, indent=2) at a nesting depth.  An int is written by its
\* digits.  A float is written by repr(); the model writes the exact quotient
\* n/d in its place (no claim reads the digits of a float in JSON).
JsonValue(value, depth) ==
    IF value.t = "int" THEN Str(value.n)
    ELSE IF value.t = "float" THEN Str(value.n) \o <<"/">> \o Str(value.d)
    ELSE IF value.items = <<>> THEN <<"{", "}">>
    ELSE <<"{", NL>>
           \o Join([i \in 1..Len(value.items) |->
                      Spaces(2 * (depth + 1)) \o JsonStr(value.items[i].k)
                        \o <<":", SP>> \o JsonValue(value.items[i].v, depth + 1)],
                   <<",", NL>>)
           \o <<NL>> \o Spaces(2 * depth) \o <<"}">>

\* The json branch: the ResultSet, a dict of dicts, as one value.
FormatJson(results) ==
    JsonValue(DictVal([i \in 1..Len(results) |->
                         Item(results[i].k, DictVal(results[i].v))]), 0)

\* formatted_output(results, format_type)
formatted_output(results, format_type) ==
    IF format_type = "json" THEN FormatJson(results)
    ELSE IF format_type = "csv" THEN FormatCsv(results)
    ELSE FormatText(results)

\* ------------------------------------------------------------- analyze_file

\* None, and a returned dict
None == [none |-> TRUE, dict |-> <<>>]
Some(dict) == [none |-> FALSE, dict |-> dict]

\* The truth value of an optional dict or str: None and the empty one are false.
Truthy(x) == ~x.none /\ x.dict # <<>>

\* A line printed to standard output: what it reports, and about what.
Msg(kind, arg) == [kind |-> kind, arg |-> arg]

\* analyze_file(filename, modes, verbose, encoding), given what the file system
\* answers: whether the path is a regular file, whether open() or read() raises
\* under the encoding, and the content read otherwise.  ret is the value
\* returned, out the lines printed.
analyze_file(filename, modes, verbose, isfile, raises, content) ==
    IF ~isfile
    THEN [ret |-> None, out |-> <<Msg("not_found", filename)>>]
    ELSE IF raises
    THEN [ret |-> None, out |-> <<Msg("read_error", filename)>>]
    ELSE [ret |-> Some(<<Item(filename, Metrics(content, modes))>>),
          out |-> IF verbose THEN <<Msg("verbose", filename)>> ELSE <<>>]

\* ------------------------------------------------------------------- main

\* The positional arguments the driver is run with.
P_d == <<"d">>
P_a == <<"d", "/", "a", ".", "m", "d">>
P_dot_a == <<".", "/", "d", "/", "a", ".", "m", "d">>
P_sub_all == <<"d", "/", "s", "u", "b", "/", "*", "*">>
P_md == <<"d", "/", "*", ".", "m", "d">>
P_none == <<"x", "*">>
Patterns == {P_d, P_a, P_dot_a, P_md, P_sub_all, P_none}

\* --ext: absent, empty, an extension, a suffix that spans a path separator
E_md == <<".", "m", "d">>
E_sub_c_md == <<"s", "u", "b", "/", "c", ".", "m", "d">>
Exts == {None, Some(<<>>), Some(E_md), Some(E_sub_c_md)}

\* --mode with -v or without
RunOptions == {[mode |-> {K_lines}, verbose |-> FALSE],
               [mode |-> {K_all, K_stats}, verbose |-> TRUE]}

\* --format choices
Formats == {"text", "json", "csv"}

\* --output: absent, empty, a path
O_out == <<"o", "u", "t">>
Outputs == {None, Some(<<>>), Some(O_out)}

\* The lists of 1..n members of S
ListsUpTo(S, n) == UNION {[1..k -> S] : k \in 1..n}

\* The paths one positional argument contributes to all_files.
Expand(file_pattern, recursive, ext) ==
    IF IsDir(file_pattern) /\ recursive
    THEN SetToSeq({PathJoin(w[1], w[2]) :
                     w \in {v \in OsWalk(file_pattern) :
                              ~(Truthy(ext) /\ ~EndsWith(v[2], ext.dict))}})
    ELSE SetToSeq({f \in Glob(file_pattern, recursive) :
                     ~Truthy(ext) \/ EndsWith(f, ext.dict)})

\* all_files when the loop over args.files ends
Collect(files, recursive, ext) ==
    Concat([i \in 1..Len(files) |-> Expand(files[i], recursive, ext)])

\* A variant of Dedup: the list as collected.
Dedup_Keep(files) == files

\* list(set(all_files)): the order the list comes out in is not defined; the
\* loop over it takes its items in any order.
Dedup(files) == SetToSeq({files[i] : i \in 1..Len(files)})

\* A variant of NoFiles: the empty check never fires.
NoFiles_Never(files) == FALSE

\* not all_files
NoFiles(files) == files = <<>>

\* A variant of Merge: the result replaces what was collected.
Merge_Replace(results, result) ==
    IF Truthy(result) THEN result.dict ELSE results

\* if result: all_results.update(result)
Merge(results, result) ==
    IF Truthy(result) THEN Update(results, result.dict) ELSE results

\* A variant of LoopDone: the loop ends after its first pass.
LoopDone_AfterFirst(files, seen) == seen # {} \/ files = <<>>

\* Whether the loop over all_files has passed every item.
LoopDone(files, seen) == seen = 1..Len(files)

\* A variant of WriteFailurePrints: the error alone, no fallback.
WriteFailure_NoFallback(text) == <<Msg("write_error", <<>>)>>

\* What the except branch of the output step prints.
WriteFailurePrints(text) == <<Msg("write_error", <<>>), Msg("result", text)>>

\* main.py, analyze_file(filename, mode, verbose), given what the file system
\* answers.  ok says whether a result was computed, out is what was printed.
simple_analyze_file(filename, mode, verbose, isfile, raises, content) ==
    LET said == IF verbose THEN <<Msg("verbose", filename)>> ELSE <<>>
    IN  IF ~isfile
        THEN [ok |-> FALSE, result |-> 0, out |-> <<Msg("not_found", filename)>>]
        ELSE IF raises
        THEN [ok |-> FALSE, result |-> 0, out |-> <<Msg("read_error", <<>>)>>]
        ELSE IF mode \in {K_lines, K_words, K_chars}
        THEN [ok |-> TRUE, result |-> SimpleResult(content, mode),
              out |-> Append(said,
                        Msg("result", Capitalize(mode) \o <<":", SP>>
                                        \o Str(SimpleResult(content, mode))))]
        ELSE [ok |-> FALSE, result |-> 0,
              out |-> Append(said, Msg("invalid_mode", mode))]

\* main.py, --mode choices
SimpleModes == {K_lines, K_words, K_chars}

\* The file names and contents of the unit runs
U_t == <<"t">>
U_comma == <<"a", ",", "b">>
UnitNames == {U_t, U_comma}
Contents == UNION {[1..n -> Alphabet] : n \in 0..MaxLen}
ModeLists == SUBSET ModeChoices \ {{}}

VARIABLES
    args,             \* the parsed command line
    all_files,        \* the resolved paths
    visited,          \* the positions of all_files the loop has passed
    all_results,      \* the ResultSet
    formated_output,  \* the rendered string
    stdout,           \* the lines printed, in order
    outfile,          \* what the output file holds
    calls,            \* the paths analyze_file was invoked with, in order
    fmt_calls,        \* how often formatted_output was invoked
    content,          \* unit runs: what f.read() returns
    simple,           \* unit runs: what main.py's analyze_file did
    pc                \* the place of main, or of the unit run

vars == <<args, all_files, visited, all_results, formated_output, stdout,
          outfile, calls, fmt_calls, content, simple, pc>>

\* main.py's analyze_file not run
NotRun == [ok |-> FALSE, result |-> 0, out |-> <<>>]

\* The output file before any write.
Untouched == [state |-> "untouched", text |-> <<>>]

\* main, lines 135-169: the command line is parsed
Init ==
    /\ \E files \in ListsUpTo(Patterns, MaxPatterns), recursive \in BOOLEAN,
          ext \in Exts, o \in RunOptions, format \in Formats,
          output \in Outputs :
         args = [files |-> files, recursive |-> recursive, ext |-> ext,
                 mode |-> o.mode, verbose |-> o.verbose,
                 format |-> format, output |-> output]
    /\ all_files = <<>>
    /\ visited = {}
    /\ all_results = <<>>
    /\ formated_output = <<>>
    /\ stdout = <<>>
    /\ outfile = Untouched
    /\ calls = <<>>
    /\ fmt_calls = 0
    /\ content = <<>>
    /\ simple = NotRun
    /\ pc = "resolve"

\* main, lines 171-197: expansion, filter, deduplication, the empty check
ResolveFiles ==
    /\ pc = "resolve"
    /\ LET found == Dedup(Collect(args.files, args.recursive, args.ext))
       IN  /\ all_files' = found
           /\ IF NoFiles(found)
              THEN /\ stdout' = Append(stdout, Msg("no_match", <<>>))
                   /\ pc' = "done"
              ELSE /\ stdout' = stdout
                   /\ pc' = "analyze"
    /\ UNCHANGED <<args, visited, all_results, formated_output, outfile, calls,
                   fmt_calls, content, simple>>

\* main, lines 200-203: one pass of the loop, for an item not yet passed
AnalyzeNext ==
    /\ pc = "analyze"
    /\ ~LoopDone(all_files, visited)
    /\ \E i \in (1..Len(all_files)) \ visited :
         LET file == all_files[i]
             r == analyze_file(file, args.mode, args.verbose, IsFile(file),
                               Resolve(file) \in Unreadable,
                               FileContent(Resolve(file)))
         IN  /\ visited' = visited \cup {i}
             /\ calls' = Append(calls, file)
             /\ stdout' = stdout \o r.out
             /\ all_results' = Merge(all_results, r.ret)
    /\ UNCHANGED <<args, all_files, formated_output, outfile, fmt_calls, content,
                   simple, pc>>

\* main, line 206
FormatResults ==
    /\ pc = "analyze"
    /\ LoopDone(all_files, visited)
    /\ formated_output' = formatted_output(all_results, args.format)
    /\ fmt_calls' = fmt_calls + 1
    /\ pc' = "output"
    /\ UNCHANGED <<args, all_files, visited, all_results, stdout, outfile, calls,
                   content, simple>>

\* main, lines 219-221: no output path
PrintResults ==
    /\ pc = "output"
    /\ ~Truthy(args.output)
    /\ stdout' = Append(stdout, Msg("result", formated_output))
    /\ pc' = "done"
    /\ UNCHANGED <<args, all_files, visited, all_results, formated_output,
                   outfile, calls, fmt_calls, content, simple>>

\* main, lines 209-214: the file is opened, written and closed
SaveResults ==
    /\ pc = "output"
    /\ Truthy(args.output)
    /\ outfile' = [state |-> "written", text |-> formated_output]
    /\ stdout' = Append(stdout, Msg("saved", <<>>))
    /\ pc' = "done"
    /\ UNCHANGED <<args, all_files, visited, all_results, formated_output,
                   calls, fmt_calls, content, simple>>

\* main, lines 209-218: open() raises and leaves the file as it was, or write()
\* or close() raises and leaves it truncated
SaveFails ==
    /\ pc = "output"
    /\ Truthy(args.output)
    /\ \E st \in {"untouched", "truncated"} : outfile' = [state |-> st, text |-> <<>>]
    /\ stdout' = stdout \o WriteFailurePrints(formated_output)
    /\ pc' = "done"
    /\ UNCHANGED <<args, all_files, visited, all_results, formated_output,
                   calls, fmt_calls, content, simple>>

Next ==
    \/ ResolveFiles
    \/ AnalyzeNext
    \/ FormatResults
    \/ PrintResults
    \/ SaveResults
    \/ SaveFails

Spec == Init /\ [][Next]_vars

\* ------------------------------------------------------------- unit runs

\* analyze_file and formatted_output of file_analyzer_pro.py, and analyze_file
\* of main.py, called on one readable file: every content up to MaxLen
\* characters, every non-empty set of modes, every format.
InitUnit ==
    /\ \E name \in UnitNames, text \in Contents, modes \in ModeLists,
          verbose \in BOOLEAN :
         /\ args = [files |-> <<name>>, recursive |-> FALSE, ext |-> None,
                    mode |-> modes, verbose |-> verbose, format |-> "text",
                    output |-> None]
         /\ content = text
    /\ all_files = <<>>
    /\ visited = {}
    /\ all_results = <<>>
    /\ formated_output = <<>>
    /\ stdout = <<>>
    /\ outfile = Untouched
    /\ calls = <<>>
    /\ fmt_calls = 0
    /\ simple = NotRun
    /\ pc = "unit"

\* analyze_file(filename, modes, verbose) of file_analyzer_pro.py; its result
\* is merged as main merges it
UnitAnalyze ==
    /\ pc = "unit"
    /\ LET r == analyze_file(args.files[1], args.mode, args.verbose, TRUE, FALSE,
                             content)
       IN  /\ stdout' = stdout \o r.out
           /\ all_results' = Merge(all_results, r.ret)
    /\ calls' = Append(calls, args.files[1])
    /\ pc' = "analyzed"
    /\ UNCHANGED <<args, all_files, visited, formated_output, outfile, fmt_calls,
                   content, simple>>

\* formatted_output(results, format_type)
UnitFormat ==
    /\ pc = "analyzed"
    /\ \E f \in Formats :
         /\ args' = [args EXCEPT !.format = f]
         /\ formated_output' = formatted_output(all_results, f)
    /\ fmt_calls' = fmt_calls + 1
    /\ pc' = "formatted"
    /\ UNCHANGED <<all_files, visited, all_results, stdout, outfile, calls,
                   content, simple>>

\* analyze_file(filename, mode, verbose) of main.py on the same file
UnitSimple ==
    /\ pc = "analyzed"
    /\ \E mode \in SimpleModes :
         simple' = simple_analyze_file(args.files[1], mode, args.verbose, TRUE,
                                       FALSE, content)
    /\ pc' = "simple"
    /\ UNCHANGED <<args, all_files, visited, all_results, formated_output, stdout,
                   outfile, calls, fmt_calls, content>>

NextUnit ==
    \/ UnitAnalyze
    \/ UnitFormat
    \/ UnitSimple

SpecUnit == InitUnit /\ [][NextUnit]_vars

\* ------------------------------------------------------------------ claims

Range(seq) == {seq[i] : i \in 1..Len(seq)}

NoRepeat(seq) == \A i, j \in 1..Len(seq) : i # j => seq[i] # seq[j]

\* Whether analyze_file succeeds on a path: a regular file that reads.
Succeeds(f) == IsFile(f) /\ Resolve(f) \notin Unreadable

\* The positions of stdout that print the rendered string.
ResultPrints == {k \in 1..Len(stdout) : stdout[k].kind = "result"}

\* Whether the output file holds the rendered string after a completed write.
Saved == outfile.state = "written"

\* C1: when the resolved file set is empty, the run reports "no matching
\* files" and is over: analyze_file and formatted_output were never invoked,
\* nothing was written to the output file and nothing else was printed.
C1_EmptySetStops ==
    (pc # "resolve" /\ all_files = <<>>) =>
        /\ pc = "done"
        /\ stdout = <<Msg("no_match", <<>>)>>
        /\ calls = <<>>
        /\ fmt_calls = 0
        /\ formated_output = <<>>
        /\ outfile = Untouched

\* An --ext that leaves nothing of what the patterns match, with an output path.
C1_Witness ==
    /\ pc = "done"
    /\ all_files = <<>>
    /\ Truthy(args.ext)
    /\ Truthy(args.output)
    /\ Collect(args.files, args.recursive, None) # <<>>

\* C2: with a non-empty resolved set, the keys of the ResultSet are exactly the
\* paths passed so far whose analysis succeeded; a path that is no regular file
\* or whose read raises left its diagnostic and no entry; and when the loop is
\* over every resolved path was passed, whatever the order.
C2_ResultSetKeys ==
    (pc \in {"analyze", "output", "done"} /\ all_files # <<>>) =>
        LET seen == {all_files[i] : i \in visited}
        IN  /\ Keys(all_results) = {f \in seen : Succeeds(f)}
            /\ NoRepeat([i \in 1..Len(all_results) |-> all_results[i].k])
            /\ \A f \in seen :
                 /\ ~IsFile(f) => Msg("not_found", f) \in Range(stdout)
                 /\ (IsFile(f) /\ ~Succeeds(f)) =>
                      Msg("read_error", f) \in Range(stdout)
                 /\ Succeeds(f) =>
                      Get(all_results, f)
                        = Metrics(FileContent(Resolve(f)), args.mode)
            /\ pc # "analyze" => seen = Range(all_files)

\* A run over d/a.md, d/b.txt, d/sub/c.md in which the unreadable file was
\* passed between the two readable ones.
C2_Witness ==
    /\ pc = "done"
    /\ Len(calls) = 3
    /\ Succeeds(calls[1]) /\ ~Succeeds(calls[2]) /\ Succeeds(calls[3])
    /\ Len(all_results) = 2

\* C3: a run that reached the output step delivered the rendered string to
\* exactly one sink: the output file on a completed write, else standard
\* output; a failed write printed the error and then the string; and the
\* output step always has a way on.
C3_OneSink ==
    /\ (pc = "done" /\ fmt_calls > 0) =>
         /\ Saved => (outfile.text = formated_output /\ ResultPrints = {})
         /\ ~Saved => /\ Cardinality(ResultPrints) = 1
                      /\ stdout[Len(stdout)] = Msg("result", formated_output)
         /\ (Truthy(args.output) /\ ~Saved) =>
              /\ Len(stdout) >= 2
              /\ stdout[Len(stdout) - 1] = Msg("write_error", <<>>)
         /\ ~Truthy(args.output) => outfile = Untouched
    /\ pc = "output" => ENABLED (PrintResults \/ SaveResults \/ SaveFails)

\* A write that failed midway, with the string on standard output.
C3_Witness ==
    /\ pc = "done"
    /\ outfile.state = "truncated"
    /\ formated_output # <<>>
    /\ stdout[Len(stdout)] = Msg("result", formated_output)

\* C10: formatted_output is invoked at most once, and only after every
\* resolved path was passed to analyze_file once; a run over a non-empty
\* resolved set ends with it invoked and its result in a sink, an empty
\* ResultSet included; only a run over an empty resolved set ends without it.
C10_FormatsAfterAll ==
    /\ fmt_calls <= 1
    /\ fmt_calls = 1 =>
         /\ all_files # <<>>
         /\ Len(calls) = Len(all_files)
         /\ Range(calls) = Range(all_files)
    /\ (pc = "done" /\ all_files # <<>>) =>
         /\ fmt_calls = 1
         /\ formated_output = formatted_output(all_results, args.format)
         /\ \/ Saved /\ outfile.text = formated_output
            \/ stdout[Len(stdout)] = Msg("result", formated_output)
    /\ (pc = "done" /\ fmt_calls = 0) => all_files = <<>>

\* The only match is a directory given without recursion: nothing analyzed
\* successfully, and the rendering of the empty ResultSet emitted.
C10_Witness ==
    /\ pc = "done"
    /\ args.files = <<P_d>>
    /\ ~args.recursive
    /\ all_files = <<P_d>>
    /\ all_results = <<>>
    /\ fmt_calls = 1
    /\ ResultPrints # {}

\* C5, as stated: no regular file is passed to analyze_file twice in a run,
\* and no file has two entries in the ResultSet, under whatever spellings.
C5_OncePerFile ==
    /\ \A i, j \in 1..Len(calls) :
         (i # j /\ IsFile(calls[i]) /\ IsFile(calls[j])) =>
            Resolve(calls[i]) # Resolve(calls[j])
    /\ \A i, j \in 1..Len(all_results) :
         i # j => Resolve(all_results[i].k) # Resolve(all_results[j].k)

\* C5, amended: a path string that two or more patterns produce is once in
\* the resolved set; no path string is passed to analyze_file twice; no path
\* string has two entries in the ResultSet.
C5_OncePerPathString ==
    /\ pc # "resolve" =>
         /\ NoRepeat(all_files)
         /\ Range(all_files)
              = Range(Collect(args.files, args.recursive, args.ext))
    /\ NoRepeat(calls)
    /\ NoRepeat([i \in 1..Len(all_results) |-> all_results[i].k])

\* Two different patterns produced the same path string, and the run is over.
C5_Witness ==
    /\ pc = "done"
    /\ \E i, j \in 1..Len(args.files) :
         /\ args.files[i] # args.files[j]
         /\ Range(Expand(args.files[i], args.recursive, args.ext))
              \cap Range(Expand(args.files[j], args.recursive, args.ext)) # {}
    /\ Len(calls) = Len(all_files)
    /\ all_results # <<>>

\* os.path.basename
BaseName(path) == PathSplit(path)[2]

\* What a positional argument yields before the extension filter.
Candidates(file_pattern, recursive) ==
    IF IsDir(file_pattern) /\ recursive
    THEN {PathJoin(w[1], w[2]) : w \in OsWalk(file_pattern)}
    ELSE Glob(file_pattern, recursive)

\* C6, all but the sameness of the test: with a filter, every resolved path
\* and every path analyzed ends with the suffix, and every candidate of either
\* branch whose file name ends with it is resolved; with no filter every
\* candidate is resolved.
C6_FilterApplied ==
    pc # "resolve" =>
        /\ Truthy(args.ext) =>
             /\ \A f \in Range(all_files) \cup Range(calls) :
                  EndsWith(f, args.ext.dict)
             /\ \A i \in 1..Len(args.files) :
                  \A c \in Candidates(args.files[i], args.recursive) :
                     EndsWith(BaseName(c), args.ext.dict) => c \in Range(all_files)
        /\ ~Truthy(args.ext) =>
             \A i \in 1..Len(args.files) :
                Candidates(args.files[i], args.recursive) \subseteq Range(all_files)

\* C6: C6_FilterApplied, and both branches apply the same suffix test: a path
\* that is a candidate of a traversed directory and of a glob is kept by both
\* or by neither.
C6_SameSuffixTest ==
    /\ C6_FilterApplied
    /\ (pc # "resolve" /\ Truthy(args.ext)) =>
         \A i, j \in 1..Len(args.files) :
            \A c \in Candidates(args.files[i], args.recursive)
                       \cap Candidates(args.files[j], args.recursive) :
               c \in Range(Expand(args.files[i], args.recursive, args.ext))
                 <=> c \in Range(Expand(args.files[j], args.recursive, args.ext))

\* The FileMetrics of the file of a unit run.
UnitMetrics == Get(all_results, args.files[1])

\* C4: for every non-empty set of modes and every readable file, the keys of
\* the FileMetrics are: lines, words, chars, each iff it or 'all' was
\* requested, and stats iff 'stats' was requested; each key once; the mapping
\* is not empty.
C4_KeySet ==
    pc \in {"analyzed", "formatted", "simple"} =>
        LET want == {k \in {K_lines, K_words, K_chars} :
                       k \in args.mode \/ K_all \in args.mode}
                      \cup (IF K_stats \in args.mode THEN {K_stats} ELSE {})
        IN  /\ Len(all_results) = 1
            /\ Keys(UnitMetrics) = want
            /\ Len(UnitMetrics) = Cardinality(want)
            /\ UnitMetrics # <<>>

\* 'all' alone: lines, words and chars, and no stats.
C4_Witness ==
    /\ pc = "analyzed"
    /\ args.mode = {K_all}
    /\ Keys(UnitMetrics) = {K_lines, K_words, K_chars}

\* The number of newline characters of the content of a unit run.
Newlines == Cardinality({i \in 1..Len(content) : content[i] = NL})

\* C7: the 'lines' metric is the number of newline characters plus one: 1 for
\* an empty file, and for a content that ends with a newline one more than the
\* number of lines that newline-terminated content has; main.py prints the
\* same number in its lines mode.
C7_LinesMetric ==
    /\ (pc \in {"analyzed", "formatted", "simple"} /\ HasKey(UnitMetrics, K_lines)) =>
         LET n == Get(UnitMetrics, K_lines).n
         IN  /\ Get(UnitMetrics, K_lines) = IntVal(Newlines + 1)
             /\ content = <<>> => n = 1
             /\ (content # <<>> /\ content[Len(content)] = NL) =>
                  LET pieces == SplitOn(content, NL)
                  IN  /\ pieces[Len(pieces)] = <<>>
                      /\ n = (Len(pieces) - 1) + 1
    /\ (pc = "simple" /\ simple.out[Len(simple.out)].arg[1] = "L") =>
         /\ simple.ok
         /\ simple.result = Newlines + 1
         /\ simple.out[Len(simple.out)]
              = Msg("result", <<"L", "i", "n", "e", "s", ":", SP>> \o Str(Newlines + 1))
         /\ HasKey(UnitMetrics, K_lines) =>
              simple.result = Get(UnitMetrics, K_lines).n

\* Two lines, the second newline-terminated, counted 3 by both programs.
C7_Witness ==
    /\ pc = "simple"
    /\ content = <<"a", NL, NL>>
    /\ HasKey(UnitMetrics, K_lines)
    /\ Get(UnitMetrics, K_lines).n = 3
    /\ simple.result = 3
    /\ simple.out[Len(simple.out)].arg[1] = "L"

\* The field of a csv row a metric has: its value if present, else empty.
C8_Field(data, key) == IF HasKey(data, key) THEN Str(Get(data, key).n) ELSE <<>>

\* C8: csv output is the header row filename,lines,words,chars, then one row
\* per ResultSet entry in order; a row has exactly four comma-separated
\* fields: the filename, then the values of lines, words and chars, each empty
\* when the key is absent; stats adds nothing.
C8_CsvRows ==
    (pc = "formatted" /\ args.format = "csv") =>
        LET rows == SplitOn(formated_output, NL)
        IN  /\ Len(rows) = 1 + Len(all_results)
            /\ rows[1] = K_filename \o <<",">> \o K_lines \o <<",">> \o K_words
                           \o <<",">> \o K_chars
            /\ \A i \in 1..Len(all_results) :
                 LET fields == SplitOn(rows[i + 1], ",")
                 IN  /\ Len(fields) = 4
                     /\ fields[1] = all_results[i].k
                     /\ fields[2] = C8_Field(all_results[i].v, K_lines)
                     /\ fields[3] = C8_Field(all_results[i].v, K_words)
                     /\ fields[4] = C8_Field(all_results[i].v, K_chars)

\* C8 for the file names that hold no comma.
C8_CsvRowsPlainNames ==
    (\A i \in 1..Len(all_results) : "," \notin Range(all_results[i].k)) => C8_CsvRows

\* The key with its first character upper-cased, the rest unchanged.
C9_FirstUpper(key) == <<ToUpper(key[1])>> \o Tail(key)

\* The lines C9 gives a metric.
C9_MetricLines(key, value) ==
    IF value.t = "dict"
    THEN <<(<<SP, SP>> \o C9_FirstUpper(key) \o <<":">>)>>
           \o [j \in 1..Len(value.items) |->
                 <<SP, SP, SP, SP>> \o value.items[j].k \o <<":", SP>>
                   \o Fmt2(value.items[j].v.n, value.items[j].v.d)]
    ELSE <<(<<SP, SP>> \o C9_FirstUpper(key) \o <<":", SP>> \o Str(value.n))>>

\* The lines C9 gives a file.
C9_FileLines(filename, data) ==
    <<(<<"R", "e", "s", "u", "l", "t", "s", SP, "f", "o", "r", SP, "'">>
         \o filename \o <<"'", ":">>)>>
      \o Concat([i \in 1..Len(data) |-> C9_MetricLines(data[i].k, data[i].v)])

\* C9: text output is, per file, the line "Results for '<path>':" and then its
\* metrics in mapping order: a scalar as two spaces, the capitalized key, a
\* colon and the value; stats as a sub-header of two spaces, the capitalized
\* key and a colon, then per inner key four spaces, the key, a colon and the
\* value with exactly 2 decimals.
C9_TextLines ==
    (pc = "formatted" /\ args.format = "text") =>
        formated_output
          = Join(Concat([i \in 1..Len(all_results) |->
                           C9_FileLines(all_results[i].k, all_results[i].v)]),
                 <<NL>>)

\* C9 for the runs that did not request stats.
C9_TextLinesNoStats ==
    K_stats \notin args.mode => C9_TextLines

====
